---- MODULE Spec2Model ----
(***************************************************************************)
(* The two graph producers of platform-graph, against one shared Neo4j    *)
(* store:                                                                  *)
(*   - src/mongodb/mongo_schema_extractor.py  (document-schema producer)   *)
(*   - src/python/analyzer.py                 (code-structure producer)    *)
(* Runs are sequential: one producer process at a time.  The store is a    *)
(* set of nodes and a set of edges; every Cypher statement of the sources  *)
(* is an operator on it.                                                   *)
(***************************************************************************)
EXTENDS Integers, Sequences, FiniteSets, TLC

\* ------------------------------------------------------------------------
\* Bounds of the model and constants of the program
\* ------------------------------------------------------------------------

\* Store rejections and sample read errors the environment may cause in one behaviour.
MaxFaults == 1
\* Runs started in the bootstrap specification.
MaxBootRuns == 2
\* Documents a sample reads (the code's default sample_size is 100).
SampleSize == 2
\* Runs started in the specification of the wider source data.
MaxDataRuns == 2

max_retries == 100
InitialDelay == 5

\* ROOT_NAME of the deployment, and the database the extractor reads.
ROOT_NAME == "R"
db_name == "FanApp"

\* ------------------------------------------------------------------------
\* The graph store
\* ------------------------------------------------------------------------

\* A property a node does not have.
NoProp == ""
\* A Collection node's schema property: the text str(schema), kept as its
\* form ("list" for {k: [..]}, "set" for {k: {..}}) and its items in order.
NoSchema == [form |-> "none", items |-> <<>>]

Node(label, id) ==
    [label |-> label, id |-> id, name |-> NoProp, project |-> NoProp,
     color |-> NoProp, file |-> NoProp, url |-> NoProp, classId |-> NoProp,
     database |-> NoProp, schema |-> NoSchema]

\* An edge joins two nodes, named by (label, id); REFERENCES carries a field.
Ref(n) == <<n.label, n.id>>
Edge(type, from, to, field) ==
    [type |-> type, from |-> Ref(from), to |-> Ref(to), field |-> field]

\* The store: its nodes, its edges and the uniqueness constraints declared on it.
EmptyGraph == [nodes |-> {}, edges |-> {}, constraints |-> {}]

\* MATCH (n:label {id: id})
MatchId(g, label, id) == {n \in g.nodes : n.label = label /\ n.id = id}
\* MATCH (n:label {project: project})
MatchProject(g, label, project) ==
    {n \in g.nodes : n.label = label /\ n.project = project}

\* SET of the given properties of m to those of n.
SetProps(m, n, props) == [f \in DOMAIN m |-> IF f \in props THEN n[f] ELSE m[f]]

\* MERGE (x:label {id}) ON CREATE SET props: an existing node is left as it is.
MergeOnCreateMutant(g, n) == [g EXCEPT !.nodes = @ \cup {n}]
MergeOnCreate(g, n) ==
    IF MatchId(g, n.label, n.id) = {} THEN [g EXCEPT !.nodes = @ \cup {n}] ELSE g

\* MERGE (x:label {id}) ON CREATE SET props ON MATCH SET props.
MergeOnMatch(g, n, props) ==
    LET matched == MatchId(g, n.label, n.id) IN
    IF matched = {} THEN [g EXCEPT !.nodes = @ \cup {n}]
    ELSE [g EXCEPT !.nodes = (@ \ matched) \cup {SetProps(m, n, props) : m \in matched}]

\* MATCH (a), (b) MERGE (a)-[:type {field}]->(b): one edge per matched pair,
\* none when either side matches nothing.
MergeEdge(g, type, froms, tos, field) ==
    [g EXCEPT !.edges = @ \cup {Edge(type, a, b, field) : a \in froms, b \in tos}]

\* MATCH (n) WHERE n in dead DETACH DELETE n
DetachDelete(g, dead) ==
    LET refs == {Ref(n) : n \in dead} IN
    [g EXCEPT !.nodes = @ \ dead,
              !.edges = {e \in @ : e.from \notin refs /\ e.to \notin refs}]

\* CREATE CONSTRAINT IF NOT EXISTS FOR (x:label) REQUIRE x.id IS UNIQUE
CreateConstraint(g, label) == [g EXCEPT !.constraints = @ \cup {label}]

\* The statements session.run sends.  A pattern is (x:label {id: val}) or
\* (x:label {project: val}).
ById(label, id) == [label |-> label, by |-> "id", val |-> id]
ByProject(label, project) == [label |-> label, by |-> "project", val |-> project]
Match(g, pat) ==
    IF pat.by = "id" THEN MatchId(g, pat.label, pat.val)
    ELSE MatchProject(g, pat.label, pat.val)

QConstraint(label) == [q |-> "constraint", tag |-> "CONSTRAINT " \o label, label |-> label]
QMergeOnCreate(n) == [q |-> "merge_on_create", tag |-> "MERGE " \o n.label, node |-> n]
QMergeOnMatch(n, props) ==
    [q |-> "merge_on_match", tag |-> "MERGE " \o n.label, node |-> n, props |-> props]
QMergeRoot(n) == [q |-> "merge_root", tag |-> "MERGE " \o n.label, node |-> n]
QMergeEdge(type, from, to, field) ==
    [q |-> "merge_edge", tag |-> "MERGE " \o type, type |-> type, from |-> from,
     to |-> to, field |-> field]
QDeleteCollections == [q |-> "delete_collections", tag |-> "DELETE"]
QDeleteProject(project) == [q |-> "delete_project", tag |-> "DELETE", project |-> project]

\* MERGE (r:Root {name, project, color}): matched on all three properties.
MergeRoot(g, n) ==
    IF \E m \in g.nodes : /\ m.label = n.label /\ m.name = n.name
                          /\ m.project = n.project /\ m.color = n.color
    THEN g ELSE [g EXCEPT !.nodes = @ \cup {n}]

Exec(g, query) ==
    CASE query.q = "constraint" -> CreateConstraint(g, query.label)
      [] query.q = "merge_on_create" -> MergeOnCreate(g, query.node)
      [] query.q = "merge_on_match" -> MergeOnMatch(g, query.node, query.props)
      [] query.q = "merge_root" -> MergeRoot(g, query.node)
      [] query.q = "merge_edge" ->
           MergeEdge(g, query.type, Match(g, query.from), Match(g, query.to), query.field)
      [] query.q = "delete_collections" ->
           DetachDelete(g, {n \in g.nodes : n.label = "Collection"})
      [] OTHER -> DetachDelete(g, {n \in g.nodes : n.project = query.project})

RECURSIVE ExecAll(_, _)
ExecAll(g, queries) ==
    IF queries = <<>> THEN g ELSE ExecAll(Exec(g, Head(queries)), Tail(queries))

\* A store fault f on a sequence of statements: statement f raises (0: none
\* does).  The statements before it took effect; it and those before were sent.
StoreFaults(queries) == 0..Len(queries)
Applied(queries, f) == IF f = 0 THEN queries ELSE SubSeq(queries, 1, f - 1)
Sent(queries, f) == IF f = 0 THEN queries ELSE SubSeq(queries, 1, f)
Tags(queries) == [i \in 1..Len(queries) |-> queries[i].tag]

\* ------------------------------------------------------------------------
\* The document store read by mongo_schema_extractor.py
\* ------------------------------------------------------------------------

\* A value of a document, by what the code looks at: type(value).__name__ and,
\* for a list, the type names of its elements.
Val(t) == [t |-> t, elems |-> <<>>]
ListOf(elems) == [t |-> "list", elems |-> elems]
TypeName(v) == v.t
IsObjectId(v) == v.t = "ObjectId"
IsListOfObjectIds(v) ==
    v.t = "list" /\ \A i \in 1..Len(v.elems) : v.elems[i] = "ObjectId"

\* A document is its items in order, each <<field, value>>.
Item(field, v) == [field |-> field, value |-> v]

Min(a, b) == IF a < b THEN a ELSE b

\* collection.find().limit(sample_size): a prefix of the collection.
LimitMutant(docs, sample_size) == docs
Limit(docs, sample_size) == SubSeq(docs, 1, Min(Len(docs), sample_size))

\* A read of the sample that raises after `after` documents were yielded;
\* NoFault reads the whole sample.
NoFault == [raises |-> FALSE, after |-> 0]
Raises(fault) == fault.raises
DocsRead(docs, sample_size, fault) ==
    IF Raises(fault) THEN SubSeq(Limit(docs, sample_size), 1, fault.after)
    ELSE Limit(docs, sample_size)
ReadFaults(docs, sample_size) ==
    {[raises |-> TRUE, after |-> j] : j \in 0..(Len(Limit(docs, sample_size)) - 1)}

\* schema[key].add(type(value).__name__), the dict kept in insertion order.
SchemaAdd(schema, key, ty) ==
    IF \E i \in 1..Len(schema) : schema[i].key = key
    THEN [i \in 1..Len(schema) |->
            IF schema[i].key = key
            THEN [key |-> key, types |-> schema[i].types \cup {ty}]
            ELSE schema[i]]
    ELSE Append(schema, [key |-> key, types |-> {ty}])

RECURSIVE SchemaOfDoc(_, _)
SchemaOfDoc(schema, doc) ==
    IF doc = <<>> THEN schema
    ELSE SchemaOfDoc(SchemaAdd(schema, Head(doc).field, TypeName(Head(doc).value)),
                     Tail(doc))

RECURSIVE SchemaOfDocs(_, _)
SchemaOfDocs(schema, docs) ==
    IF docs = <<>> THEN schema
    ELSE SchemaOfDocs(SchemaOfDoc(schema, Head(docs)), Tail(docs))

\* get_collection_schema: the dict of lists when the sample was read through,
\* the dict of sets accumulated so far when the read raised.
get_collection_schema_mutant(docs, sample_size, fault) ==
    IF Raises(fault) THEN [form |-> "set", fields |-> <<>>]
    ELSE [form |-> "list", fields |-> SchemaOfDocs(<<>>, Limit(docs, sample_size))]
get_collection_schema(docs, sample_size, fault) ==
    [form |-> IF Raises(fault) THEN "set" ELSE "list",
     fields |-> SchemaOfDocs(<<>>, DocsRead(docs, sample_size, fault))]

\* The orders in which a set of type names can be listed: list(v) and str(v)
\* of a set of strings follow the process's string hashing.
Orders(S) ==
    {s \in [1..Cardinality(S) -> S] : \A i, j \in 1..Cardinality(S) : i # j => s[i] # s[j]}

\* str(schema): every text the serialisation can produce.
RECURSIVE Serialisations(_)
Serialisations(fields) ==
    IF fields = <<>> THEN {<<>>}
    ELSE {<<[key |-> Head(fields).key, types |-> o]>> \o rest :
            o \in Orders(Head(fields).types), rest \in Serialisations(Tail(fields))}
SchemaTexts(schema) ==
    {[form |-> schema.form, items |-> items] : items \in Serialisations(schema.fields)}

\* What a schema text says: each field's set of type names.
FieldsOf(text) == {text.items[i].key : i \in 1..Len(text.items)}
TypesOf(text, key) ==
    UNION {{text.items[i].types[j] : j \in 1..Len(text.items[i].types)} :
             i \in {k \in 1..Len(text.items) : text.items[k].key = key}}

\* field_to_collection[f"{collection_name}Id"] = collection_name
IdFieldMutant(collection_name) == collection_name \o "_id"
IdField(collection_name) == collection_name \o "Id"
InFieldToCollection(collection_names, field) ==
    \E i \in 1..Len(collection_names) : IdField(collection_names[i]) = field
FieldToCollection(collection_names, field) ==
    LET last == CHOOSE i \in 1..Len(collection_names) :
                  /\ IdField(collection_names[i]) = field
                  /\ \A j \in (i + 1)..Len(collection_names) :
                        IdField(collection_names[j]) # field
    IN collection_names[last]

\* foreign_keys[field] = referenced_collection, the dict kept in insertion order.
ForeignKeyAddMutant(fks, field, referenced) ==
    Append(fks, [field |-> field, referenced |-> referenced])
ForeignKeyAdd(fks, field, referenced) ==
    IF \E i \in 1..Len(fks) : fks[i].field = field
    THEN [i \in 1..Len(fks) |->
            IF fks[i].field = field THEN [field |-> field, referenced |-> referenced]
            ELSE fks[i]]
    ELSE Append(fks, [field |-> field, referenced |-> referenced])

IsReferenceMutant(collection_names, item) ==
    InFieldToCollection(collection_names, item.field)
IsReference(collection_names, item) ==
    /\ InFieldToCollection(collection_names, item.field)
    /\ IsObjectId(item.value) \/ IsListOfObjectIds(item.value)

RECURSIVE ForeignKeysOfDoc(_, _, _)
ForeignKeysOfDoc(fks, collection_names, doc) ==
    IF doc = <<>> THEN fks
    ELSE ForeignKeysOfDoc(
           IF IsReference(collection_names, Head(doc))
           THEN ForeignKeyAdd(fks, Head(doc).field,
                              FieldToCollection(collection_names, Head(doc).field))
           ELSE fks,
           collection_names, Tail(doc))

RECURSIVE ForeignKeysOfDocs(_, _, _)
ForeignKeysOfDocs(fks, collection_names, docs) ==
    IF docs = <<>> THEN fks
    ELSE ForeignKeysOfDocs(ForeignKeysOfDoc(fks, collection_names, Head(docs)),
                           collection_names, Tail(docs))

\* ------------------------------------------------------------------------
\* Source data: what the document store holds when a run reads it
\* ------------------------------------------------------------------------

StrVal == Val("str")
IntVal == Val("int")
OidVal == Val("ObjectId")

UserDoc == <<Item("_id", OidVal), Item("name", StrVal)>>
UserDocIntName == <<Item("_id", OidVal), Item("name", IntVal)>>
OrderDocUserId == <<Item("_id", OidVal), Item("userId", OidVal)>>
OrderDocUsersId == <<Item("_id", OidVal), Item("UsersId", OidVal)>>
OrderDocNote == <<Item("_id", OidVal), Item("note", StrVal)>>
ItemDoc == <<Item("_id", OidVal), Item("UsersId", OidVal), Item("OrdersId", OidVal)>>

\* Values of a field named UsersId, by shape.
OidList == ListOf(<<"ObjectId", "ObjectId">>)
EmptyList == ListOf(<<>>)
MixedList == ListOf(<<"ObjectId", "str">>)
RefDoc(v) == <<Item("_id", OidVal), Item("UsersId", v)>>

\* A collection whose fields are sparse, longer than the sample.
SparseDocs ==
    <<<<Item("_id", OidVal), Item("name", StrVal)>>,
      <<Item("_id", OidVal), Item("age", IntVal)>>,
      <<Item("_id", OidVal), Item("name", IntVal)>>,
      <<Item("_id", OidVal), Item("nick", StrVal)>>>>

\* db.list_collection_names() and db[collection_name].find(), per source.
MongoSources == {"scenario", "small", "shop"}
MongoSourcesWide == {"shapes", "one_many", "many_one", "sparse"}
MongoData(src) ==
    CASE src = "scenario" ->
           [collection_names |-> <<"Users", "Orders">>,
            docs |-> [c \in {"Users", "Orders"} |->
                        IF c = "Users" THEN <<UserDoc>> ELSE <<OrderDocUserId>>]]
      [] src = "small" ->
           [collection_names |-> <<"Users", "Orders">>,
            docs |-> [c \in {"Users", "Orders"} |->
                        IF c = "Users" THEN <<UserDoc>> ELSE <<OrderDocUsersId>>]]
      [] src = "shapes" ->
           [collection_names |-> <<"Users", "Carts", "Tags", "Notes", "Teams">>,
            docs |-> [c \in {"Users", "Carts", "Tags", "Notes", "Teams"} |->
                        CASE c = "Users" -> <<UserDoc>>
                          [] c = "Carts" -> <<RefDoc(EmptyList)>>
                          [] c = "Tags" -> <<RefDoc(MixedList)>>
                          [] c = "Notes" -> <<RefDoc(StrVal)>>
                          [] OTHER -> <<RefDoc(OidList)>>]]
      [] src = "one_many" ->
           [collection_names |-> <<"Users", "Orders">>,
            docs |-> [c \in {"Users", "Orders"} |->
                        IF c = "Users" THEN <<UserDoc>>
                        ELSE <<RefDoc(OidVal), RefDoc(OidList)>>]]
      [] src = "many_one" ->
           [collection_names |-> <<"Users", "Orders">>,
            docs |-> [c \in {"Users", "Orders"} |->
                        IF c = "Users" THEN <<UserDoc>>
                        ELSE <<RefDoc(OidList), RefDoc(OidVal)>>]]
      [] src = "sparse" ->
           [collection_names |-> <<"Users">>,
            docs |-> [c \in {"Users"} |-> SparseDocs]]
      [] OTHER ->
           [collection_names |-> <<"Users", "Orders", "Items">>,
            docs |-> [c \in {"Users", "Orders", "Items"} |->
                        CASE c = "Users" -> <<UserDoc, UserDocIntName>>
                          [] c = "Orders" -> <<OrderDocUsersId, OrderDocNote>>
                          [] OTHER -> <<ItemDoc, ItemDoc>>]]

CollectionNames(src) ==
    {MongoData(src).collection_names[i] : i \in 1..Len(MongoData(src).collection_names)}

\* ------------------------------------------------------------------------
\* Source data: the tree analyzer.py walks
\* ------------------------------------------------------------------------

base_url == "http://localhost"
project_root == "/app"

ClassDef(name, lineno, body) ==
    [type |-> "ClassDef", name |-> name, lineno |-> lineno, body |-> body]
FunctionDef(name, lineno, body) ==
    [type |-> "FunctionDef", name |-> name, lineno |-> lineno, body |-> body]
\* A file under /app: its path relative to /app, whether ast.parse accepts
\* it, and the declarations of its module body.
File(rel, parses, body) == [rel |-> rel, parses |-> parses, body |-> body]
FilePath(file) == project_root \o "/" \o file.rel

\* Source trees.
FileA ==
    File("a.py", TRUE,
         <<ClassDef("A", 1, <<FunctionDef("f", 2, <<>>), FunctionDef("g", 4, <<>>)>>),
           FunctionDef("main", 8, <<>>)>>)
FileASmaller ==
    File("a.py", TRUE, <<ClassDef("A", 1, <<FunctionDef("f", 2, <<>>)>>)>>)
FileB == File("b.py", TRUE, <<FunctionDef("helper", 1, <<>>)>>)
FileBroken == File("broken.py", FALSE, <<>>)
\* A class holding a nested class before a method, and a function holding
\* a nested function.
FileNested ==
    File("n.py", TRUE,
         <<ClassDef("Outer", 1,
              <<FunctionDef("first", 2, <<>>),
                ClassDef("Inner", 3, <<FunctionDef("h", 4, <<>>)>>),
                FunctionDef("m", 6, <<>>)>>),
           FunctionDef("top", 8, <<FunctionDef("inner", 9, <<>>)>>)>>)
\* A second file declaring class A and function main, as a.py does.
FileTwin ==
    File("z.py", TRUE,
         <<ClassDef("A", 3, <<FunctionDef("f", 5, <<>>)>>),
           FunctionDef("main", 7, <<>>)>>)

\* os.walk('/app'), per source: the .py files in the order they are walked.
CodeSources == {"app", "trimmed"}
CodeSourcesWide == {"nested", "twins"}
CodeData(s) ==
    CASE s = "app" -> <<FileA, FileB>>
      [] s = "nested" -> <<FileNested>>
      [] s = "twins" -> <<FileA, FileTwin>>
      [] OTHER -> <<FileASmaller, FileBroken>>

\* ------------------------------------------------------------------------
\* State
\* ------------------------------------------------------------------------

VARIABLES
    graph,      \* the Neo4j store
    producer,   \* the process running: "mongo", "code", or "none"
    pc,         \* where its main() stands
    src,        \* the source data this run reads
    idx,        \* the loop index of the collection or file being processed
    probes,     \* liveness probes create_neo4j_driver has made in this run
    delay,      \* its local variable delay
    slept,      \* the delays it has slept, in order
    issued,     \* the statements this run's session has sent, in order
    errlog,     \* the errors this run has logged
    outcome,    \* how the last run ended
    budget,     \* the faults the environment may still cause, the runs it may start
    graph0,     \* the store when the current run started
    clean,      \* no fault has hit the current run
    prev,       \* the producer of the run that ended before the current one
    last        \* per producer, its most recent run that ended

vars == <<graph, producer, pc, src, idx, probes, delay, slept, issued, errlog,
          outcome, budget, graph0, clean, prev, last>>

runVars == <<producer, src, probes, delay, slept, graph0, prev, last>>

Producers == {"mongo", "code"}
\* A run budget that is never used up.
Unlimited == 0 - 1
NoRun == [src |-> "", clean |-> FALSE, outcome |-> "none"]

\* ------------------------------------------------------------------------
\* create_neo4j_driver (both producers)
\* ------------------------------------------------------------------------

\* A delay of coef * 2^twos * 3^threes seconds.
DelayOf(coef, twos, threes) == [coef |-> coef, twos |-> twos, threes |-> threes]

\* delay *= 1.5 in mongo_schema_extractor.py, delay *= 2 in analyzer.py.
BackoffMutant(p, d) == d
Backoff(p, d) ==
    IF p = "mongo" THEN DelayOf(d.coef, d.twos - 1, d.threes + 1)
    ELSE DelayOf(d.coef, d.twos + 1, d.threes)

FirstStep(p) == IF p = "mongo" THEN "constraints" ELSE "cleanup"
Sources(p) == IF p = "mongo" THEN MongoSources ELSE CodeSources

\* A producer process starts: main() up to the call of create_neo4j_driver.
StartRun ==
    /\ pc = "idle"
    /\ budget.runs # 0
    /\ budget' = [budget EXCEPT !.runs = IF @ = Unlimited THEN @ ELSE @ - 1]
    /\ \E p \in Producers : producer' = p
    /\ pc' = "connect"
    /\ probes' = 0
    /\ delay' = DelayOf(InitialDelay, 0, 0)
    /\ slept' = <<>>
    /\ issued' = <<>>
    /\ errlog' = <<>>
    /\ outcome' = "running"
    /\ graph0' = graph
    /\ clean' = TRUE
    /\ idx' = 0
    /\ src' = ""
    /\ prev' = producer
    /\ last' = IF producer = "none" THEN last
               ELSE [last EXCEPT ![producer] =
                        [src |-> src, clean |-> clean, outcome |-> outcome]]
    /\ UNCHANGED graph

\* One turn of the retry loop whose probe raises: sleep, then scale the delay.
ProbeFails ==
    /\ pc = "connect"
    /\ probes < max_retries
    /\ probes' = probes + 1
    /\ slept' = Append(slept, delay)
    /\ delay' = Backoff(producer, delay)
    /\ UNCHANGED <<graph, producer, pc, src, idx, issued, errlog, outcome, budget,
                   graph0, clean, prev, last>>

\* One turn of the retry loop whose probe returns: the driver is handed back,
\* and main() goes on with the source data as it stands.
ProbeReturns ==
    /\ pc = "connect"
    /\ probes < max_retries
    /\ probes' = probes + 1
    /\ pc' = FirstStep(producer)
    /\ \E s \in Sources(producer) : src' = s
    /\ UNCHANGED <<graph, producer, idx, delay, slept, issued, errlog, outcome,
                   budget, graph0, clean, prev, last>>

\* The same turn, with the source data drawn from the wider set.
SourcesWide(p) ==
    IF p = "mongo" THEN MongoSources \cup MongoSourcesWide
    ELSE CodeSources \cup CodeSourcesWide
ProbeReturnsWide ==
    /\ pc = "connect"
    /\ probes < max_retries
    /\ probes' = probes + 1
    /\ pc' = FirstStep(producer)
    /\ \E s \in SourcesWide(producer) : src' = s
    /\ UNCHANGED <<graph, producer, idx, delay, slept, issued, errlog, outcome,
                   budget, graph0, clean, prev, last>>

\* The loop ran out: raise Exception("Failed to connect ..."); main() dies.
ConnectionExhaustedMutant ==
    /\ pc = "connect"
    /\ probes = max_retries - 1
    /\ pc' = "idle"
    /\ outcome' = "exhausted"
    /\ UNCHANGED <<graph, producer, src, idx, probes, delay, slept, issued, errlog,
                   budget, graph0, clean, prev, last>>
ConnectionExhausted ==
    /\ pc = "connect"
    /\ probes = max_retries
    /\ pc' = "idle"
    /\ outcome' = "exhausted"
    /\ UNCHANGED <<graph, producer, src, idx, probes, delay, slept, issued, errlog,
                   budget, graph0, clean, prev, last>>

\* ------------------------------------------------------------------------
\* How a run sends statements
\* ------------------------------------------------------------------------

MayFault(n) == n <= budget.faults

\* Entering a loop over n units, and leaving its i-th turn: the next turn, or
\* the statement after the loop ("idle": main() returns).
At(stage, i) == [pc |-> stage, idx |-> i]
LoopEnter(stage, n, after) == IF n > 0 THEN At(stage, 1) ELSE At(after, 1)
LoopNext(stage, i, n, after) == IF i < n THEN At(stage, i + 1) ELSE At(after, 1)

\* The session's log: each statement sent, and whether the store took it.
Log(queries, f) ==
    [i \in 1..Len(Sent(queries, f)) |-> [tag |-> queries[i].tag, ok |-> i # f]]

\* An error a producer logs: where, for which collection or file, whether a
\* read, a statement or a parse raised, and after how many documents read.
Error(at, unit, cause, after) ==
    [at |-> at, unit |-> unit, cause |-> cause, after |-> after]

\* Statements sent from main(), outside every try: a rejected statement
\* raises out of main() and the process dies; otherwise main() goes on at
\* `next`.
Uncaught(queries, next) ==
    \E f \in StoreFaults(queries) :
        /\ f # 0 => MayFault(1)
        /\ graph' = ExecAll(graph, Applied(queries, f))
        /\ issued' = issued \o Log(queries, f)
        /\ budget' = [budget EXCEPT !.faults = IF f = 0 THEN @ ELSE @ - 1]
        /\ clean' = (clean /\ f = 0)
        /\ pc' = IF f = 0 THEN next.pc ELSE "idle"
        /\ idx' = next.idx
        /\ outcome' = IF f # 0 THEN "error"
                      ELSE IF next.pc = "idle" THEN "done" ELSE outcome
        /\ UNCHANGED errlog

\* The errors among `errors` that the environment caused (a file that does
\* not parse is source data).
Faults(errors) == SelectSeq(errors, LAMBDA e : e.cause # "parse")

\* Statements sent inside a try whose except logs and goes on: the statements
\* after the rejected one are skipped, and the loop continues at `next`.
CaughtMutant(queries, f, errors, next) ==
    /\ graph' = ExecAll(graph, Applied(queries, f))
    /\ issued' = issued \o Log(queries, f)
    /\ errlog' = errlog \o errors
    /\ budget' = [budget EXCEPT !.faults = @ - Len(Faults(errors))]
    /\ clean' = (clean /\ Faults(errors) = <<>>)
    /\ pc' = IF errors = <<>> THEN next.pc ELSE "idle"
    /\ idx' = next.idx
    /\ outcome' = IF errors # <<>> \/ next.pc = "idle" THEN "done" ELSE outcome
Caught(queries, f, errors, next) ==
    /\ graph' = ExecAll(graph, Applied(queries, f))
    /\ issued' = issued \o Log(queries, f)
    /\ errlog' = errlog \o errors
    /\ budget' = [budget EXCEPT !.faults = @ - Len(Faults(errors))]
    /\ clean' = (clean /\ Faults(errors) = <<>>)
    /\ pc' = next.pc
    /\ idx' = next.idx
    /\ outcome' = IF next.pc = "idle" THEN "done" ELSE outcome

\* ------------------------------------------------------------------------
\* mongo_schema_extractor.py
\* ------------------------------------------------------------------------

mongo_root_id == "root:" \o ROOT_NAME
mongo_database_id == "mongo:" \o db_name
mongo_collection_id(collection_name) == "mongo:" \o db_name \o "." \o collection_name

MongoRoot ==
    [Node("Root", mongo_root_id) EXCEPT
        !.name = ROOT_NAME, !.project = ROOT_NAME, !.color = "orange"]
MongoDatabase ==
    [Node("Database", mongo_database_id) EXCEPT
        !.name = db_name, !.project = ROOT_NAME, !.color = "#00BFFF"]
MongoCollection(collection_name, text) ==
    [Node("Collection", mongo_collection_id(collection_name)) EXCEPT
        !.name = collection_name, !.database = db_name, !.color = "#8A2BE2",
        !.schema = text]

mongo_create_uniqueness_constraints ==
    <<QConstraint("Root"), QConstraint("Database"), QConstraint("Collection")>>
mongo_root_queries == <<QMergeOnMatch(MongoRoot, {"name", "project", "color"})>>
mongo_database_queries == <<QMergeOnMatch(MongoDatabase, {"name", "project", "color"})>>
mongo_link_queries ==
    <<QMergeEdge("CONTAINS", ById("Root", mongo_root_id),
                 ById("Database", mongo_database_id), NoProp)>>
mongo_cleanup_queries == <<QDeleteCollections>>

mongo_constraints ==
    /\ producer = "mongo" /\ pc = "constraints"
    /\ Uncaught(mongo_create_uniqueness_constraints, At("root", 1))
    /\ UNCHANGED runVars

mongo_merge_root ==
    /\ producer = "mongo" /\ pc = "root"
    /\ Uncaught(mongo_root_queries, At("database", 1))
    /\ UNCHANGED runVars

mongo_merge_database ==
    /\ producer = "mongo" /\ pc = "database"
    /\ Uncaught(mongo_database_queries, At("link", 1))
    /\ UNCHANGED runVars

mongo_link_root_database ==
    /\ producer = "mongo" /\ pc = "link"
    /\ Uncaught(mongo_link_queries, At("cleanup", 1))
    /\ UNCHANGED runVars

\* After the cleanup main() calls extract_schema_and_push_to_neo4j, then
\* detect_and_create_relationships, each a loop over the collection names.
AfterMongoCleanup ==
    LET n == Len(MongoData(src).collection_names) IN
    LoopEnter("extract", n, "idle")

mongo_cleanup_mutant ==
    /\ producer = "mongo" /\ pc = "cleanup"
    /\ Uncaught(<<>>, AfterMongoCleanup)
    /\ UNCHANGED runVars
mongo_cleanup ==
    /\ producer = "mongo" /\ pc = "cleanup"
    /\ Uncaught(mongo_cleanup_queries, AfterMongoCleanup)
    /\ UNCHANGED runVars

\* The statements of one turn of extract_schema_and_push_to_neo4j.
extract_queries(collection_name, text) ==
    <<QMergeOnMatch(MongoCollection(collection_name, text),
                    {"name", "database", "color", "schema"}),
      QMergeEdge("DECLARES", ById("Database", mongo_database_id),
                 ById("Collection", mongo_collection_id(collection_name)), NoProp)>>

mongo_extract_collection ==
    /\ producer = "mongo" /\ pc = "extract"
    /\ LET names == MongoData(src).collection_names
           name == names[idx]
           docs == MongoData(src).docs[name]
       IN
       \E rf \in {NoFault} \cup ReadFaults(docs, SampleSize) :
       \E text \in SchemaTexts(get_collection_schema(docs, SampleSize, rf)) :
       \E f \in StoreFaults(extract_queries(name, text)) :
          LET errors ==
                (IF Raises(rf) THEN <<Error("schema", name, "read", rf.after)>> ELSE <<>>)
                \o (IF f # 0 THEN <<Error("collection", name, "store", 0)>> ELSE <<>>)
          IN /\ MayFault(Len(Faults(errors)))
             /\ Caught(extract_queries(name, text), f, errors,
                       LoopNext("extract", idx, Len(names), "detect"))
    /\ UNCHANGED runVars

\* The foreign keys one turn of detect_and_create_relationships ends its
\* sampling loop with; a read that raises leaves the try before any is used.
detect_foreign_keys(collection_names, docs, sample_size, fault) ==
    IF Raises(fault) THEN <<>>
    ELSE ForeignKeysOfDocs(<<>>, collection_names, Limit(docs, sample_size))

detect_queries(collection_name, fks) ==
    [i \in 1..Len(fks) |->
        QMergeEdge("REFERENCES",
                   ById("Collection", mongo_collection_id(collection_name)),
                   ById("Collection", mongo_collection_id(fks[i].referenced)),
                   fks[i].field)]

mongo_detect_collection ==
    /\ producer = "mongo" /\ pc = "detect"
    /\ LET names == MongoData(src).collection_names
           name == names[idx]
           docs == MongoData(src).docs[name]
       IN
       \E rf \in {NoFault} \cup ReadFaults(docs, SampleSize) :
          LET queries == detect_queries(name,
                            detect_foreign_keys(names, docs, SampleSize, rf))
          IN
          \E f \in StoreFaults(queries) :
             LET errors ==
                   IF Raises(rf) THEN <<Error("relationships", name, "read", rf.after)>>
                   ELSE IF f # 0 THEN <<Error("relationships", name, "store", 0)>>
                   ELSE <<>>
             IN /\ MayFault(Len(Faults(errors)))
                /\ Caught(queries, f, errors,
                          LoopNext("detect", idx, Len(names), "idle"))
    /\ UNCHANGED runVars

\* ------------------------------------------------------------------------
\* analyzer.py
\* ------------------------------------------------------------------------

create_url(file, lineno) == base_url \o "/" \o file.rel \o "#" \o ToString(lineno)

CodeRoot ==
    [Node("Root", NoProp) EXCEPT
        !.name = ROOT_NAME, !.project = ROOT_NAME, !.color = "orange"]
CodeNode(label, id, name, file, lineno) ==
    [Node(label, id) EXCEPT
        !.name = name, !.project = ROOT_NAME, !.file = FilePath(file),
        !.url = create_url(file, lineno)]

\* The visitor: self.current_class (NoProp: None) and the statements sent.
Visitor(current_class, queries) ==
    [current_class |-> current_class, queries |-> queries]

RECURSIVE visit(_, _, _)
RECURSIVE generic_visit(_, _, _)

visit_ClassDef(v, file, node) ==
    LET class_id == ROOT_NAME \o ":" \o node.name
        sent == v.queries \o
                <<QMergeOnCreate(CodeNode("Class", class_id, node.name, file, node.lineno)),
                  QMergeEdge("DECLARES", ByProject("Root", ROOT_NAME),
                             ById("Class", class_id), NoProp)>>
        inner == generic_visit(Visitor(class_id, sent), file, node.body)
    IN Visitor(NoProp, inner.queries)

visit_FunctionDef(v, file, node) ==
    LET sent ==
          IF v.current_class # NoProp
          THEN LET function_id == v.current_class \o "." \o node.name IN
               v.queries \o
               <<QMergeOnCreate(
                    [CodeNode("Method", function_id, node.name, file, node.lineno)
                        EXCEPT !.classId = v.current_class]),
                 QMergeEdge("DECLARES", ById("Class", v.current_class),
                            ById("Method", function_id), NoProp)>>
          ELSE LET function_id == ROOT_NAME \o ":" \o node.name IN
               v.queries \o
               <<QMergeOnCreate(
                    CodeNode("Function", function_id, node.name, file, node.lineno)),
                 QMergeEdge("DECLARES", ByProject("Root", ROOT_NAME),
                            ById("Function", function_id), NoProp)>>
    IN generic_visit(Visitor(v.current_class, sent), file, node.body)

visit(v, file, node) ==
    IF node.type = "ClassDef" THEN visit_ClassDef(v, file, node)
    ELSE visit_FunctionDef(v, file, node)

generic_visit(v, file, body) ==
    IF body = <<>> THEN v
    ELSE generic_visit(visit(v, file, Head(body)), file, Tail(body))

\* The statements analyze_file sends for a file that parses.
analyze_file_queries(file) == generic_visit(Visitor(NoProp, <<>>), file, file.body).queries

code_create_uniqueness_constraints ==
    <<QConstraint("Class"), QConstraint("Function"), QConstraint("Method")>>
code_cleanup_queries == <<QDeleteProject(ROOT_NAME)>>
code_root_queries == <<QMergeRoot(CodeRoot)>>

code_cleanup_mutant ==
    /\ producer = "code" /\ pc = "cleanup"
    /\ Uncaught(<<>>, At("constraints", 1))
    /\ UNCHANGED runVars
code_cleanup ==
    /\ producer = "code" /\ pc = "cleanup"
    /\ Uncaught(code_cleanup_queries, At("constraints", 1))
    /\ UNCHANGED runVars

code_constraints ==
    /\ producer = "code" /\ pc = "constraints"
    /\ Uncaught(code_create_uniqueness_constraints, At("root", 1))
    /\ UNCHANGED runVars

\* After the root node main() calls analyze_directory, a loop over the files.
code_merge_root ==
    /\ producer = "code" /\ pc = "root"
    /\ Uncaught(code_root_queries, LoopEnter("analyze", Len(CodeData(src)), "idle"))
    /\ UNCHANGED runVars

\* analyze_file: a file that does not parse, or a statement the store
\* rejects, ends the file inside the try; the walk goes on.
code_analyze_file ==
    /\ producer = "code" /\ pc = "analyze"
    /\ LET files == CodeData(src)
           file == files[idx]
           queries == IF file.parses THEN analyze_file_queries(file) ELSE <<>>
       IN
       \E f \in StoreFaults(queries) :
          LET errors == IF ~file.parses THEN <<Error("file", file.rel, "parse", 0)>>
                        ELSE IF f # 0 THEN <<Error("file", file.rel, "store", 0)>>
                        ELSE <<>>
          IN /\ MayFault(Len(Faults(errors)))
             /\ Caught(queries, f, errors, LoopNext("analyze", idx, Len(files), "idle"))
    /\ UNCHANGED runVars

\* ------------------------------------------------------------------------
\* Specifications
\* ------------------------------------------------------------------------

InitWith(faults, runs) ==
    /\ graph = EmptyGraph
    /\ producer = "none"
    /\ pc = "idle"
    /\ src = ""
    /\ idx = 0
    /\ probes = 0
    /\ delay = DelayOf(InitialDelay, 0, 0)
    /\ slept = <<>>
    /\ issued = <<>>
    /\ errlog = <<>>
    /\ outcome = "none"
    /\ budget = [faults |-> faults, runs |-> runs]
    /\ graph0 = EmptyGraph
    /\ clean = FALSE
    /\ prev = "none"
    /\ last = [p \in Producers |-> NoRun]

\* Synchronisation against a store that is up: every source, a few faults.
Init == InitWith(MaxFaults, Unlimited)

Next ==
    \/ StartRun
    \/ ProbeReturns
    \/ mongo_constraints
    \/ mongo_merge_root
    \/ mongo_merge_database
    \/ mongo_link_root_database
    \/ mongo_cleanup
    \/ mongo_extract_collection
    \/ mongo_detect_collection
    \/ code_cleanup
    \/ code_constraints
    \/ code_merge_root
    \/ code_analyze_file

Spec == Init /\ [][Next]_vars

\* Bootstrap against a store that may be down for any number of probes, and
\* that rejects nothing once it is up, over a few runs.
InitBoot == InitWith(0, MaxBootRuns)

NextBoot ==
    \/ Next
    \/ ProbeFails
    \/ ConnectionExhausted

SpecBoot == InitBoot /\ [][NextBoot]_vars

\* Synchronisation over the wider source data, against a store that is up
\* and rejects nothing, over a few runs.
InitWide == InitWith(0, MaxDataRuns)

NextWide ==
    \/ StartRun
    \/ ProbeReturnsWide
    \/ mongo_constraints
    \/ mongo_merge_root
    \/ mongo_merge_database
    \/ mongo_link_root_database
    \/ mongo_cleanup
    \/ mongo_extract_collection
    \/ mongo_detect_collection
    \/ code_cleanup
    \/ code_constraints
    \/ code_merge_root
    \/ code_analyze_file

SpecWide == InitWide /\ [][NextWide]_vars

\* ------------------------------------------------------------------------
\* What the claims speak of
\* ------------------------------------------------------------------------

Refs(g) == {Ref(n) : n \in g.nodes}
Ended == pc = "idle" /\ outcome \in {"done", "error"}
Completed == pc = "idle" /\ outcome = "done"
Tag(i) == issued[i].tag

\* The current run repeats the run before it: same producer, same source
\* data, and that run completed with no fault.
Repeats ==
    /\ prev = producer
    /\ last[producer] = [src |-> src, clean |-> TRUE, outcome |-> "done"]

\* C1: a run that completes with no store error, right after a completed
\* run of the same producer on the same source data, leaves the nodes (with
\* their properties) and the edges as that run left them.
C1_Idempotent ==
    (Completed /\ clean /\ Repeats) =>
        (graph.nodes = graph0.nodes /\ graph.edges = graph0.edges)

\* ------------------------------------------------------------------------
\* C2: the order of a run's statements
\* ------------------------------------------------------------------------

Labels == {"Root", "Database", "Collection", "Class", "Function", "Method"}
ConstraintTags == {QConstraint(l).tag : l \in Labels}
CleanupTags == {QDeleteCollections.tag}
UpsertTags ==
    {"MERGE " \o l : l \in Labels \cup {"CONTAINS", "DECLARES", "REFERENCES"}}
\* The upserts of the document-schema run that its cleanup does not reach.
KeptTags == {"MERGE Root", "MERGE Database", "MERGE CONTAINS"}

Positions(tags) == {i \in 1..Len(issued) : Tag(i) \in tags}
AllBefore(tags, i) == Cardinality(Positions(tags) \cap 1..(i - 1))

RECURSIVE Flatten(_)
Flatten(seqs) == IF seqs = <<>> THEN <<>> ELSE Head(seqs) \o Flatten(Tail(seqs))
Range(seq) == {seq[i] : i \in 1..Len(seq)}

\* The statements a code run sends for its files, one sequence per file.
CodeFileQueries(s) ==
    [i \in 1..Len(CodeData(s)) |->
        IF CodeData(s)[i].parses THEN analyze_file_queries(CodeData(s)[i]) ELSE <<>>]

\* The identity keys (label, id) of what a source declares: its collections,
\* or its classes, functions and methods.
SourceKeys(p, s) ==
    IF s = "" THEN {}
    ELSE IF p = "mongo"
    THEN {<<"Collection", mongo_collection_id(c)>> : c \in CollectionNames(s)}
    ELSE {Ref(q.node) : q \in {x \in Range(Flatten(CodeFileQueries(s))) :
                                  x.q = "merge_on_create"}}

\* What this producer's previous run had in its source and this run has not.
Removed == SourceKeys(producer, last[producer].src) \ SourceKeys(producer, src)

\* C3: after a run completes, nothing that its producer's previous run had
\* in its source and this run's source has not is left in the store: no
\* node with that identity key, no edge to or from it.
C3_ConvergenceAfterRemoval ==
    Completed =>
        \A key \in Removed :
            /\ key \notin Refs(graph)
            /\ \A e \in graph.edges : e.from # key /\ e.to # key

\* A completed run whose source dropped something the store held at its start.
C3_Witness ==
    /\ Completed
    /\ \E key \in Removed : key \in Refs(graph0)

\* ------------------------------------------------------------------------
\* C4: the end-to-end scenario
\* ------------------------------------------------------------------------

CollectionNode(c) == MatchId(graph, "Collection", mongo_collection_id(c))
References == {e \in graph.edges : e.type = "REFERENCES"}
ReferencesEdge(from, to, field) ==
    [type |-> "REFERENCES", from |-> <<"Collection", mongo_collection_id(from)>>,
     to |-> <<"Collection", mongo_collection_id(to)>>, field |-> field]

\* Users with fields _id and name, Orders with fields _id and `field`, the
\* latter holding a reference id.
UsersAndOrders(s, field) ==
    /\ MongoData(s).collection_names = <<"Users", "Orders">>
    /\ MongoData(s).docs["Users"] = <<UserDoc>>
    /\ MongoData(s).docs["Orders"] = <<<<Item("_id", OidVal), Item(field, OidVal)>>>>

CleanMongoRun == Completed /\ clean /\ producer = "mongo"

\* C4 as stated: with Orders.userId, the run yields Collection nodes for
\* Users and Orders and exactly one REFERENCES edge, Orders -> Users, with
\* field "userId".
C4_ScenarioAsStated ==
    (CleanMongoRun /\ UsersAndOrders(src, "userId")) =>
        /\ CollectionNode("Users") # {} /\ CollectionNode("Orders") # {}
        /\ References = {ReferencesEdge("Orders", "Users", "userId")}

\* C4, amended: the field that refers to Users is named UsersId; with it
\* the run yields the two Collection nodes and exactly one REFERENCES edge,
\* Orders -> Users, with field "UsersId"; with userId it yields the two
\* nodes and no REFERENCES edge.
C4_Scenario ==
    /\ (CleanMongoRun /\ UsersAndOrders(src, "UsersId")) =>
          /\ Cardinality(CollectionNode("Users")) = 1
          /\ Cardinality(CollectionNode("Orders")) = 1
          /\ References = {ReferencesEdge("Orders", "Users", "UsersId")}
    /\ (CleanMongoRun /\ UsersAndOrders(src, "userId")) =>
          /\ Cardinality(CollectionNode("Users")) = 1
          /\ Cardinality(CollectionNode("Orders")) = 1
          /\ References = {}

C4_Witness ==
    /\ CleanMongoRun /\ UsersAndOrders(src, "UsersId")
    /\ ReferencesEdge("Orders", "Users", "UsersId") \in graph.edges

\* ------------------------------------------------------------------------
\* C5, C6: bootstrap
\* ------------------------------------------------------------------------

\* create_neo4j_driver has handed the driver back in this run.
Returned == producer # "none" /\ pc # "connect" /\ outcome # "exhausted"

\* InitialDelay * multiplier^i: multiplier 3/2 for the document-schema
\* producer, 2 for the code producer.
ExpectedDelay(p, i) ==
    IF p = "mongo" THEN DelayOf(InitialDelay, 0 - i, i) ELSE DelayOf(InitialDelay, i, 0)

\* C5: when the probe fails k times and then returns, the driver is handed
\* back after k + 1 probes and k sleeps, the i-th sleep (from 0) lasting
\* InitialDelay * multiplier^i.
C5_BootstrapRetry ==
    Returned =>
        /\ probes = Len(slept) + 1
        /\ probes <= max_retries
        /\ \A i \in 1..Len(slept) : slept[i] = ExpectedDelay(producer, i - 1)

\* Two failed probes, then one that returns: three attempts.
C5_Witness == Returned /\ Len(slept) = 2 /\ probes = 3

\* C6: create_neo4j_driver raises only after max_retries failed probes, and
\* the run then ends having sent no statement and changed nothing.
C6_BootstrapExhaustion ==
    /\ outcome = "exhausted" =>
          /\ pc = "idle"
          /\ probes = max_retries /\ Len(slept) = max_retries
          /\ issued = <<>>
          /\ graph = graph0
    /\ pc = "connect" => issued = <<>> /\ graph = graph0

C6_Witness == outcome = "exhausted" /\ graph0.nodes # {}

\* ------------------------------------------------------------------------
\* C7: a rejected upsert
\* ------------------------------------------------------------------------

\* The statements of a run of producer p over source s that meets no fault.
MongoStatements(s) ==
    LET names == MongoData(s).collection_names IN
    mongo_create_uniqueness_constraints \o mongo_root_queries
    \o mongo_database_queries \o mongo_link_queries \o mongo_cleanup_queries
    \o Flatten([i \in 1..Len(names) |-> extract_queries(names[i], NoSchema)])
    \o Flatten([i \in 1..Len(names) |->
                   detect_queries(names[i],
                       detect_foreign_keys(names, MongoData(s).docs[names[i]],
                                           SampleSize, NoFault))])
CodeStatements(s) ==
    code_cleanup_queries \o code_create_uniqueness_constraints
    \o code_root_queries \o Flatten(CodeFileQueries(s))
Statements(p, s) == IF p = "mongo" THEN MongoStatements(s) ELSE CodeStatements(s)

Rejected == {i \in 1..Len(issued) : ~issued[i].ok}
StoreErrors == SelectSeq(errlog, LAMBDA e : e.cause = "store")
ReadErrors == SelectSeq(errlog, LAMBDA e : e.cause = "read")

\* C7: when the store rejects upserts of a run and nothing else fails, the
\* run logs each rejection, sends every other statement it would have sent,
\* and completes.
C7_FactFailureIsolated ==
    (/\ Ended /\ producer \in Producers
     /\ Rejected # {} /\ ReadErrors = <<>>
     /\ \A i \in Rejected : Tag(i) \in UpsertTags) =>
        /\ outcome = "done"
        /\ Len(StoreErrors) = Cardinality(Rejected)
        /\ [i \in 1..Len(issued) |-> Tag(i)] = Tags(Statements(producer, src))

\* ------------------------------------------------------------------------
\* C8, C9, C10: a read that raises
\* ------------------------------------------------------------------------

Failed == {errlog[i].unit : i \in 1..Len(errlog)}
DocsOf(c) == MongoData(src).docs[c]
FullSchema(c) == get_collection_schema(DocsOf(c), SampleSize, NoFault)
FullForeignKeys(c) ==
    detect_foreign_keys(MongoData(src).collection_names, DocsOf(c), SampleSize, NoFault)
DeclaresEdge(c) ==
    [type |-> "DECLARES", from |-> <<"Database", mongo_database_id>>,
     to |-> <<"Collection", mongo_collection_id(c)>>, field |-> NoProp]
ReferencesFrom(c) ==
    {e \in References : e.from = <<"Collection", mongo_collection_id(c)>>}

\* C8: in a run that completes, with reads that raised for some collections
\* and nothing else failing, every other collection has its node with the
\* schema of its whole sample, its DECLARES edge, and exactly the REFERENCES
\* edges its sample gives to collections whose node is in the store.
C8_IsolationAcrossCollections ==
    (Completed /\ producer = "mongo" /\ StoreErrors = <<>>) =>
        \A c \in CollectionNames(src) \ Failed :
            /\ \E n \in CollectionNode(c) :
                  /\ n.name = c /\ n.database = db_name
                  /\ n.schema \in SchemaTexts(FullSchema(c))
            /\ Cardinality(CollectionNode(c)) = 1
            /\ DeclaresEdge(c) \in graph.edges
            /\ ReferencesFrom(c) =
                  {ReferencesEdge(c, fk.referenced, fk.field) :
                      fk \in {x \in Range(FullForeignKeys(c)) :
                                 CollectionNode(x.referenced) # {}}}

\* The middle collection's read raised; the ones around it went through.
C8_Witness ==
    /\ Completed /\ producer = "mongo" /\ StoreErrors = <<>>
    /\ Len(MongoData(src).collection_names) = 3
    /\ Failed = {MongoData(src).collection_names[2]}
    /\ \E c \in CollectionNames(src) \ Failed : ReferencesFrom(c) # {}

\* The foreign keys in the first n documents of c's sample.
PartialForeignKeys(c, n) ==
    ForeignKeysOfDocs(<<>>, MongoData(src).collection_names,
                      SubSeq(Limit(DocsOf(c), SampleSize), 1, n))

\* C9: when the read of a collection's sample raises during relationship
\* detection and nothing else fails, the foreign keys found in the documents
\* read before it have their REFERENCES edges.
C9_PartialRelationshipsRetained ==
    (Completed /\ producer = "mongo" /\ StoreErrors = <<>>) =>
        \A i \in 1..Len(errlog) :
            errlog[i].at = "relationships" =>
                \A fk \in Range(PartialForeignKeys(errlog[i].unit, errlog[i].after)) :
                    CollectionNode(fk.referenced) # {} =>
                        ReferencesEdge(errlog[i].unit, fk.referenced, fk.field)
                            \in graph.edges

\* The schema accumulated over the first n documents of c's sample, as the
\* except branch returns it.
PartialSchema(c, n) ==
    [form |-> "set",
     fields |-> SchemaOfDocs(<<>>, SubSeq(Limit(DocsOf(c), SampleSize), 1, n))]

SchemaErrors == {i \in 1..Len(errlog) : errlog[i].at = "schema"}

\* C10: when the read of a collection's sample raises during schema
\* extraction and the store takes the upsert, the Collection node carries
\* the schema accumulated over the documents read before the read raised.
C10_PartialSchemaRetained ==
    (producer = "mongo" /\ StoreErrors = <<>>) =>
        \A i \in SchemaErrors :
            /\ Cardinality(CollectionNode(errlog[i].unit)) = 1
            /\ \A n \in CollectionNode(errlog[i].unit) :
                  n.schema \in SchemaTexts(PartialSchema(errlog[i].unit, errlog[i].after))
            /\ DeclaresEdge(errlog[i].unit) \in graph.edges

\* A read that raised after at least one document, whose fields the node has.
C10_Witness ==
    /\ producer = "mongo" /\ StoreErrors = <<>>
    /\ \E i \in SchemaErrors :
          /\ errlog[i].after >= 1
          /\ \E n \in CollectionNode(errlog[i].unit) : FieldsOf(n.schema) # {}

\* ------------------------------------------------------------------------
\* C11: the shape of a reference value
\* ------------------------------------------------------------------------

\* The records a run samples from collection c.
Sample(c) == Limit(DocsOf(c), SampleSize)
\* The values field takes in the records of a sample.
ValuesOf(sample, field) ==
    UNION {{sample[i][j].value :
               j \in {k \in 1..Len(sample[i]) : sample[i][k].field = field}} :
           i \in 1..Len(sample)}

\* A single reference-type value, or a non-empty array of them.
IsSingleReference(v) == v.t = "ObjectId"
IsArrayOfReferences(v) ==
    v.t = "list" /\ Len(v.elems) > 0 /\ \A i \in 1..Len(v.elems) : v.elems[i] = "ObjectId"

\* C11: after a run with no error, every REFERENCES edge of a collection
\* names a field that holds, in some sampled record, a single reference
\* value or a non-empty array of reference values; a field whose sampled
\* values are all of another shape (a scalar that is no reference, a mixed
\* array, an empty array) has no edge.
C11_ReferenceValueShape ==
    CleanMongoRun =>
        \A c \in CollectionNames(src) : \A e \in ReferencesFrom(c) :
            \E v \in ValuesOf(Sample(c), e.field) :
                IsSingleReference(v) \/ IsArrayOfReferences(v)

\* ------------------------------------------------------------------------
\* C12: an edge whose endpoint is missing
\* ------------------------------------------------------------------------

\* The errors logged for unit c at the given place.
ErrorsAt(at, c) == SelectSeq(errlog, LAMBDA e : e.at = at /\ e.unit = c)
\* The run sent the REFERENCES upsert of c's foreign key fk: c's sample was
\* read through in detect_and_create_relationships.
Attempted(c, fk) ==
    /\ \A i \in 1..Len(ErrorsAt("relationships", c)) :
          ErrorsAt("relationships", c)[i].cause # "read"
    /\ fk \in Range(FullForeignKeys(c))
EndpointMissing(c, fk) == CollectionNode(c) = {} \/ CollectionNode(fk.referenced) = {}

\* C12: when a run sends a REFERENCES upsert and one of its endpoint nodes
\* is not in the store, no edge is created, an error is logged for it, and
\* the run completes.
C12_MissingEndpointLogged ==
    (Completed /\ producer = "mongo") =>
        \A c \in CollectionNames(src) : \A fk \in Range(FullForeignKeys(c)) :
            (Attempted(c, fk) /\ EndpointMissing(c, fk)) =>
                /\ ReferencesEdge(c, fk.referenced, fk.field) \notin graph.edges
                /\ ErrorsAt("relationships", c) # <<>>

\* ------------------------------------------------------------------------
\* C13: sparse fields over a prefix sample
\* ------------------------------------------------------------------------

\* The first min(n, SampleSize) records of c, in source order.
FirstRecords(c) ==
    [i \in 1..(IF Len(DocsOf(c)) < SampleSize THEN Len(DocsOf(c)) ELSE SampleSize) |->
        DocsOf(c)[i]]
FieldsIn(records) ==
    UNION {{records[i][j].field : j \in 1..Len(records[i])} : i \in 1..Len(records)}
TypeNamesIn(records, field) == {v.t : v \in ValuesOf(records, field)}

\* C13: after a run with no error, the schema on a collection's node lists
\* exactly the fields of the first min(n, SampleSize) records, each once,
\* and for each field exactly the type names its values have in those
\* records, each once: nothing for the records where it is absent, nothing
\* from the records after the first SampleSize.
C13_SparsePrefixSample ==
    CleanMongoRun =>
        \A c \in CollectionNames(src) :
            /\ Cardinality(CollectionNode(c)) = 1
            /\ \A n \in CollectionNode(c) :
                  /\ FieldsOf(n.schema) = FieldsIn(FirstRecords(c))
                  /\ Len(n.schema.items) = Cardinality(FieldsIn(FirstRecords(c)))
                  /\ \A i \in 1..Len(n.schema.items) :
                        LET item == n.schema.items[i] IN
                        /\ TypesOf(n.schema, item.key) =
                              TypeNamesIn(FirstRecords(c), item.key)
                        /\ Len(item.types) =
                              Cardinality(TypeNamesIn(FirstRecords(c), item.key))

\* A collection longer than the sample, with a field that only some of the
\* sampled records have.
C13_Witness ==
    /\ CleanMongoRun
    /\ \E c \in CollectionNames(src) :
          /\ Len(DocsOf(c)) > SampleSize
          /\ CollectionNode(c) # {}
          /\ \E f \in FieldsIn(FirstRecords(c)) : \E i \in 1..Len(FirstRecords(c)) :
                \A j \in 1..Len(FirstRecords(c)[i]) : FirstRecords(c)[i][j].field # f
          /\ FieldsIn(DocsOf(c)) # FieldsIn(FirstRecords(c))

\* ------------------------------------------------------------------------
\* C14: the cardinality of a candidate
\* ------------------------------------------------------------------------

Reverse(seq) == [i \in 1..Len(seq) |-> seq[Len(seq) + 1 - i]]

\* The records of a sample that hold a reference in field, by position, and
\* the cardinality the last of them shows.
Holding(sample, field) ==
    {i \in 1..Len(sample) :
        \E v \in ValuesOf(<<sample[i]>>, field) :
            IsSingleReference(v) \/ IsArrayOfReferences(v)}
Last(S) == CHOOSE i \in S : \A j \in S : j <= i
LastCardinality(sample, field) ==
    IF \E v \in ValuesOf(<<sample[Last(Holding(sample, field))]>>, field) :
          IsSingleReference(v)
    THEN "one" ELSE "many"

\* The candidates detect_and_create_relationships records over a sample.
Candidates(sample) ==
    ForeignKeysOfDocs(<<>>, MongoData(src).collection_names, sample)

\* C14: the candidate recorded for a field carries the cardinality of the
\* record sampled last; so when a sample and the same records in reverse
\* order end on different cardinalities for a field, what the run records
\* and sends for the two differs.
C14_CardinalityLastWins ==
    CleanMongoRun =>
        \A c \in CollectionNames(src) : \A f \in FieldsIn(Sample(c)) :
            (/\ Holding(Sample(c), f) # {}
             /\ LastCardinality(Sample(c), f) # LastCardinality(Reverse(Sample(c)), f)) =>
                /\ Candidates(Sample(c)) # Candidates(Reverse(Sample(c)))
                /\ detect_queries(c, Candidates(Sample(c)))
                      # detect_queries(c, Candidates(Reverse(Sample(c))))

\* ------------------------------------------------------------------------
\* C15, C16: what the code run emits for the declarations of a file
\* ------------------------------------------------------------------------

CleanCodeRun == Completed /\ clean /\ producer = "code"
ParsedFiles(s) == {f \in Range(CodeData(s)) : f.parses}
OfType(body, type) == {d \in Range(body) : d.type = type}

\* The classes declared in a body, at any depth.
RECURSIVE ClassesIn(_)
ClassesIn(body) ==
    OfType(body, "ClassDef") \cup UNION {ClassesIn(d.body) : d \in Range(body)}

DeclaresEdgeTo(from, to) ==
    [type |-> "DECLARES", from |-> from, to |-> to, field |-> NoProp]
RootDeclares(to) ==
    \E r \in Refs(graph) : r[1] = "Root" /\ DeclaresEdgeTo(r, to) \in graph.edges
TopLevelFunctions(s) ==
    {d.name : d \in UNION {OfType(f.body, "FunctionDef") : f \in ParsedFiles(s)}}

\* C15: after a code run with no error, every function declared directly in
\* the body of a class is a Method node with id <classId>.<name> with a
\* DECLARES edge from its class, whatever precedes it in the class body, and
\* is no Function node declared by the root.
C15_MethodLinkage ==
    CleanCodeRun =>
        \A f \in ParsedFiles(src) : \A c \in ClassesIn(f.body) :
            \A m \in OfType(c.body, "FunctionDef") :
                LET class_id == ROOT_NAME \o ":" \o c.name
                    method == <<"Method", class_id \o "." \o m.name>>
                    function == <<"Function", ROOT_NAME \o ":" \o m.name>>
                IN /\ method \in Refs(graph)
                   /\ DeclaresEdgeTo(<<"Class", class_id>>, method) \in graph.edges
                   /\ m.name \notin TopLevelFunctions(src) =>
                         function \notin Refs(graph) /\ ~RootDeclares(function)

\* The names declared in a body, at any depth.
RECURSIVE NamesIn(_)
NamesIn(body) ==
    {d.name : d \in Range(body)} \cup UNION {NamesIn(d.body) : d \in Range(body)}

\* The names of the direct declarations of a file: its top-level classes
\* and functions, and the functions in the body of a top-level class.
DirectNames(file) ==
    {d.name : d \in Range(file.body)}
    \cup UNION {{m.name : m \in OfType(c.body, "FunctionDef")} :
                   c \in OfType(file.body, "ClassDef")}
NestedNames(s) ==
    UNION {NamesIn(f.body) : f \in ParsedFiles(s)}
    \ UNION {DirectNames(f) : f \in ParsedFiles(s)}

CodeLabels == {"Class", "Function", "Method"}

\* C16: after a code run with no error, no Class, Function or Method node
\* stands for a declaration that is only nested: a function inside a
\* function or method body, a class inside a class or function, or anything
\* declared inside those; and no edge leads to such a node.
C16_DirectDeclarationsOnly ==
    CleanCodeRun =>
        /\ \A n \in graph.nodes :
              n.label \in CodeLabels => n.name \notin NestedNames(src)
        /\ \A e \in graph.edges :
              e.to[1] \in CodeLabels =>
                 \E n \in graph.nodes : Ref(n) = e.to /\ n.name \notin NestedNames(src)

\* ------------------------------------------------------------------------
\* C17: one edge per candidate
\* ------------------------------------------------------------------------

CollectionRef(c) == <<"Collection", mongo_collection_id(c)>>
\* The known collections X for which some sampled record of c holds a
\* single reference value in the field named <X>Id.
SingleReferenceTargets(c) ==
    {x \in CollectionNames(src) :
        \E v \in ValuesOf(Sample(c), x \o "Id") : IsSingleReference(v)}
\* The fields of c's sample named <X>Id for a known collection X that hold
\* a reference, single or array.
CandidateFields(c) ==
    {f \in FieldsIn(Sample(c)) :
        /\ \E x \in CollectionNames(src) : f = x \o "Id"
        /\ \E v \in ValuesOf(Sample(c), f) :
              IsSingleReference(v) \/ (v.t = "list" /\ IsListOfObjectIds(v))}
RECURSIVE Sum(_, _)
Sum(f, S) == IF S = {} THEN 0 ELSE LET x == CHOOSE y \in S : TRUE IN f[x] + Sum(f, S \ {x})

\* C17: after a document-schema run with no error, for every collection C
\* and known collection X with a single reference value in C's field <X>Id,
\* the store holds the REFERENCES edge C -> X with field <X>Id, the run sent
\* one REFERENCES upsert per (collection, field) however many records carry
\* the field, and every REFERENCES edge is for a field named <X>Id of a
\* known collection X and leads to X.
C17_OneEdgePerCandidate ==
    CleanMongoRun =>
        /\ \A c \in CollectionNames(src) : \A x \in SingleReferenceTargets(c) :
              {e \in ReferencesFrom(c) : e.field = x \o "Id"} =
                 {[type |-> "REFERENCES", from |-> CollectionRef(c),
                   to |-> CollectionRef(x), field |-> x \o "Id"]}
        /\ Cardinality(Positions({"MERGE REFERENCES"})) =
              Sum([c \in CollectionNames(src) |-> Cardinality(CandidateFields(c))],
                  CollectionNames(src))
        /\ \A e \in References :
              \E x \in CollectionNames(src) :
                 e.field = x \o "Id" /\ e.to = CollectionRef(x)

\* A repeated run over a collection whose two sampled records both carry
\* the reference fields.
C17_Witness ==
    /\ CleanMongoRun /\ Repeats
    /\ \E c \in CollectionNames(src) :
          /\ Len(Sample(c)) > 1
          /\ \A i \in 1..Len(Sample(c)) :
                \E v \in ValuesOf(<<Sample(c)[i]>>, "UsersId") : IsSingleReference(v)
          /\ ReferencesEdge(c, "Users", "UsersId") \in graph.edges

\* ------------------------------------------------------------------------
\* C18: node identity and update policy
\* ------------------------------------------------------------------------

KeyedLabels == {"Collection", "Database", "Class", "Function", "Method"}

\* The node upserts of a code run over source s, in the order sent.
CodeEmissions(s) ==
    SelectSeq(Flatten(CodeFileQueries(s)), LAMBDA q : q.q = "merge_on_create")
\* The first of them for an identity key.
FirstEmission(s, key) ==
    LET at == {i \in 1..Len(CodeEmissions(s)) : Ref(CodeEmissions(s)[i].node) = key}
    IN CodeEmissions(s)[CHOOSE i \in at : \A j \in at : i <= j].node

MongoNodes(g) ==
    {n \in g.nodes : n.label \in {"Database", "Collection"}
                     \/ (n.label = "Root" /\ n.id = mongo_root_id)}
MongoEdges(g) ==
    {e \in g.edges : e.from \in Refs([g EXCEPT !.nodes = MongoNodes(g)])}
\* The facts of the code producer: Class, Function and Method nodes, and
\* the DECLARES edges to them.
CodeNodes(g) == {n \in g.nodes : n.label \in CodeLabels}
CodeEdges(g) == {e \in g.edges : e.to[1] \in CodeLabels}

\* C19: a completed code run leaves every node and edge of the
\* document-schema producer as it found them, and a completed
\* document-schema run leaves every Class, Function and Method node and the
\* DECLARES edges to them as it found them.
C19_CrossProducerFrame ==
    /\ (Completed /\ producer = "code") =>
          /\ MongoNodes(graph0) \subseteq graph.nodes
          /\ MongoEdges(graph0) \subseteq graph.edges
    /\ (Completed /\ producer = "mongo") =>
          /\ CodeNodes(graph0) = CodeNodes(graph)
          /\ CodeEdges(graph0) = CodeEdges(graph)

\* ------------------------------------------------------------------------
\* C20: a single root
\* ------------------------------------------------------------------------

Roots == MatchProject(graph, "Root", ROOT_NAME)
IncomingFromRoot(n) ==
    {e \in graph.edges : e.type = "DECLARES" /\ e.to = Ref(n) /\ e.from[1] = "Root"}
\* The nodes the visitor links to the root.
TopLevelNodes == {n \in graph.nodes : n.label \in {"Class", "Function"}}

\* C20: between runs that all completed, the store holds at most one Root
\* node whose project is the root name, and every Class and Function node
\* has exactly one incoming DECLARES edge from a Root node.
C20_SingleRoot ==
    pc = "idle" =>
        /\ Cardinality(Roots) <= 1
        /\ \A n \in TopLevelNodes : Cardinality(IncomingFromRoot(n)) = 1
====
